---- MODULE Spec2Model ----
(***************************************************************************)
(* tsuru auth.User: a user record kept in the Document Store and mirrored  *)
(* in the Repository Manager.  Operations: Create, Delete, Update, AddKey, *)
(* RemoveKey, GetUserByEmail (src/auth/user.go).                           *)
(*                                                                         *)
(* Every handler is a pure operator from a "world" record (in-memory user  *)
(* objects, both stores, the log of collaborator calls made by the handler *)
(* and its return value) to the world after it.  The outcome of every      *)
(* collaborator call (nil or an error) is an input of the handler.         *)
(***************************************************************************)
EXTENDS Integers, Sequences, FiniteSets, TLC

VARIABLES
    users,      \* in-memory *User objects: object id -> [Email, Keys, Limit]
    db,         \* Document Store, users collection: a function from the stored emails to documents
    repoUsers,  \* Repository Manager: the emails registered
    repoKeys,   \* Repository Manager: email -> set of repository.Key
    last,       \* the last handler call: operation, receiver, argument, calls made, result
    config,     \* the configuration: quota:apps-per-user, <<>> when absent, <<n>> when set to n
    faults,     \* the number of collaborator calls made to fail so far
    inflight,   \* the AddKey calls run step by step: object id -> position, key, log
    allOk,      \* history: every call so far has returned nil
    mirrored    \* history: no call so far could have broken the mirror (see MirrorSafeCall)

vars == <<users, db, repoUsers, repoKeys, last, config, faults, inflight, allOk, mirrored>>

-----------------------------------------------------------------------------
(* Bounds and input sets *)

MaxKeys == 2    \* AddKey is only called on objects holding fewer keys than this
MaxFaults == 2  \* at most this many collaborator calls are made to fail in one behaviour

Objs == {"u1"}
Emails == {"a@x.com"}
ArgNames == {"", "k1"}
Contents == {"c1", "c2"}
ArgKeys == [Name : ArgNames, Content : Contents]

InitKeyLists ==
    { <<>>,
      << [Name |-> "k1", Content |-> "c1"], [Name |-> "a@x.com-2", Content |-> "c2"] >> }
InitLimits == {3}

ConfigValues == {<<>>, <<-1>>, <<0>>, <<5>>}

-----------------------------------------------------------------------------
(* Errors *)

Nil == "nil"
ErrUserNotFound == "user not found"
ErrUserAlreadyHasKey == "user already has this key"
ErrKeyNotFound == "key not found"

ErrConn == "db: no reachable servers"
ErrDup == "db: duplicate key"
ErrNotFound == "db: not found"
ErrDbIO == "db: i/o timeout"
ErrRepo == "repository: service unavailable"

ConnOutcomes == {Nil, ErrConn}
DbOutcomes == {Nil, ErrDbIO}
RepoOutcomes == {Nil, ErrRepo}

Unlimited == -1

Stored(d, email) == email \in DOMAIN d
Put(d, email, u) == [e \in DOMAIN d \cup {email} |-> IF e = email THEN u ELSE d[e]]
Drop(d, email) == [e \in DOMAIN d \ {email} |-> d[e]]

Range(s) == {s[i] : i \in 1..Len(s)}

\* strings.Contains(s, sub)
Contains(s, sub) ==
    \E i \in 1..(Len(s) - Len(sub) + 1) : SubSeq(s, i, i + Len(sub) - 1) = sub

RepoKey(k) == [Name |-> k.Name, Body |-> k.Content]

Call(fn, arg, err) == [fn |-> fn, arg |-> arg, err |-> err]

Logged(w, fn, arg, err) == [w EXCEPT !.calls = Append(@, Call(fn, arg, err)), !.err = err]

-----------------------------------------------------------------------------
(* Collaborators.  r is the outcome the collaborator was going to give. *)

DbConn(w, r) == Logged(w, "db.Conn", "", r)

DbInsert(w, u, r) ==
    LET e == IF Stored(w.db, u.Email) THEN ErrDup ELSE r
        w1 == IF e = Nil THEN [w EXCEPT !.db = Put(@, u.Email, u)] ELSE w
    IN  Logged(w1, "db.Insert", u.Email, e)

DbUpdate(w, email, u, r) ==
    LET e == IF ~Stored(w.db, email) THEN ErrNotFound ELSE r
        w1 == IF e = Nil THEN [w EXCEPT !.db = Put(Drop(@, email), u.Email, u)] ELSE w
    IN  Logged(w1, "db.Update", email, e)

DbRemove(w, email, r) ==
    LET e == IF ~Stored(w.db, email) THEN ErrNotFound ELSE r
        w1 == IF e = Nil THEN [w EXCEPT !.db = Drop(@, email)] ELSE w
    IN  Logged(w1, "db.Remove", email, e)

RepoCreateUser(w, email, r) ==
    LET w1 == IF r = Nil THEN [w EXCEPT !.repoUsers = @ \cup {email}] ELSE w
    IN  Logged(w1, "repo.CreateUser", email, r)

RepoRemoveUser(w, email, r) ==
    LET w1 == IF r = Nil
              THEN [w EXCEPT !.repoUsers = @ \ {email}, !.repoKeys[email] = {}]
              ELSE w
    IN  Logged(w1, "repo.RemoveUser", email, r)

RepoAddKey(w, email, rk, r) ==
    LET w1 == IF r = Nil THEN [w EXCEPT !.repoKeys[email] = @ \cup {rk}] ELSE w
    IN  Logged(w1, "repo.AddKey", rk.Name, r)

RepoRemoveKey(w, email, rk, r) ==
    LET w1 == IF r = Nil THEN [w EXCEPT !.repoKeys[email] = @ \ {rk}] ELSE w
    IN  Logged(w1, "repo.RemoveKey", rk.Name, r)

-----------------------------------------------------------------------------
(* auth.User.  o names the receiver, w.users[o] is the struct behind it; out
   gives the outcome of every collaborator call the handler may make. *)

CreateOutcomes ==
    [ conn : ConnOutcomes, insert : DbOutcomes, createUser : RepoOutcomes,
      addKey : [1..MaxKeys -> RepoOutcomes],
      delConn : ConnOutcomes, remove : DbOutcomes, removeUser : RepoOutcomes ]
DeleteOutcomes == [delConn : ConnOutcomes, remove : DbOutcomes, removeUser : RepoOutcomes]
AddKeyOutcomes ==
    [ repoAdd : RepoOutcomes, updConn : ConnOutcomes, update : DbOutcomes,
      repoRemove : RepoOutcomes ]
RemoveKeyOutcomes == [repoRemove : RepoOutcomes, updConn : ConnOutcomes, update : DbOutcomes]
FindOutcomes == [conn : ConnOutcomes]

ValidateEmail(email) == Contains(email, "@")

\* GetUserByEmail: the user found is stored in the object slot o
GetUserByEmail(w, o, email, out) ==
    IF ~ValidateEmail(email) THEN [w EXCEPT !.err = "invalid email"]
    ELSE LET w1 == DbConn(w, out.conn) IN
         IF w1.err # Nil THEN w1
         ELSE IF ~Stored(w1.db, email)
              THEN Logged(w1, "db.Find", email, ErrUserNotFound)
              ELSE [Logged(w1, "db.Find", email, Nil) EXCEPT !.users[o] = w1.db[email]]

Delete(w, o, out) ==
    LET email == w.users[o].Email
        w1 == DbConn(w, out.delConn)
    IN  IF w1.err # Nil THEN w1
        ELSE LET w2 == DbRemove(w1, email, out.remove)
                 w3 == RepoRemoveUser(w2, email, out.removeUser)
             IN  [w3 EXCEPT !.err = Nil]

Update(w, o, out) ==
    LET w1 == DbConn(w, out.updConn)
    IN  IF w1.err # Nil THEN w1
        ELSE DbUpdate(w1, w.users[o].Email, w.users[o], out.update)

\* mutant: keys are matched by name alone
FindKeyByName(keys, key) ==
    LET hits == {i \in 1..Len(keys) : keys[i].Name = key.Name}
    IN  IF hits = {} THEN -1
        ELSE (CHOOSE i \in hits : \A j \in hits : i <= j) - 1

\* mutant: a key is found by its content only
FindKeyByContent(keys, key) ==
    LET hits == {i \in 1..Len(keys) : keys[i].Content = key.Content}
    IN  IF hits = {} THEN -1
        ELSE (CHOOSE i \in hits : \A j \in hits : i <= j) - 1

\* FindKey: the index (from 0, as in the code) of the first key of keys that has
\* key's name or key's content; -1 when there is none
FindKey(keys, key) ==
    LET hits == {i \in 1..Len(keys) :
                    keys[i].Name = key.Name \/ keys[i].Content = key.Content}
    IN  IF hits = {} THEN -1
        ELSE (CHOOSE i \in hits : \A j \in hits : i <= j) - 1

HasKey(keys, key) == FindKey(keys, key) > -1

\* mutant: the error of the Repository Manager is returned as it came
addKeyRepositoryUnwrapped(w, o, key, r) ==
    RepoAddKey(w, w.users[o].Email, RepoKey(key), r)

addKeyRepository(w, o, key, r) ==
    LET w1 == RepoAddKey(w, w.users[o].Email, RepoKey(key), r)
    IN  IF w1.err # Nil
        THEN [w1 EXCEPT !.err = "failed to add key to git server: " \o w1.err]
        ELSE w1

\* mutant: the key sent to the Repository Manager carries the name as its body
removeKeyRepositoryWrongBody(w, o, key, r) ==
    LET w1 == RepoRemoveKey(w, w.users[o].Email, [Name |-> key.Name, Body |-> key.Name], r)
    IN  IF w1.err # Nil
        THEN [w1 EXCEPT !.err = "failed to remove the key from git server: " \o w1.err]
        ELSE w1

removeKeyRepository(w, o, key, r) ==
    LET w1 == RepoRemoveKey(w, w.users[o].Email, RepoKey(key), r)
    IN  IF w1.err # Nil
        THEN [w1 EXCEPT !.err = "failed to remove the key from git server: " \o w1.err]
        ELSE w1

\* mutant: the record is updated without the key being appended
addKeyDBNoAppend(w, o, key, out) == Update(w, o, out)

addKeyDB(w, o, key, out) ==
    Update([w EXCEPT !.users[o].Keys = Append(@, key)], o, out)

\* mutant: the list is truncated without the copy that shifts the tail
RemoveAtNoCopy(keys, index) ==
    [i \in 1..(Len(keys) - 1) |-> keys[i]]

RemoveAt(keys, index) ==
    [i \in 1..(Len(keys) - 1) |-> IF i <= index THEN keys[i] ELSE keys[i + 1]]

\* mutant: the error of removeKeyRepository does not end the call
RemoveKeyNoAbort(w, o, key, out) ==
    LET keys == w.users[o].Keys
        index == FindKey(keys, key)
    IN  IF index < 0 THEN [w EXCEPT !.err = ErrKeyNotFound]
        ELSE LET w1 == removeKeyRepository(w, o, keys[index + 1], out.repoRemove)
             IN  Update([w1 EXCEPT !.users[o].Keys = RemoveAt(keys, index)], o, out)

RemoveKey(w, o, key, out) ==
    LET keys == w.users[o].Keys
        index == FindKey(keys, key)
    IN  IF index < 0 THEN [w EXCEPT !.err = ErrKeyNotFound]
        ELSE LET w1 == removeKeyRepository(w, o, keys[index + 1], out.repoRemove)
             IN  IF w1.err # Nil THEN w1
                 ELSE Update([w1 EXCEPT !.users[o].Keys = RemoveAt(keys, index)], o, out)

RECURSIVE registerKeys(_, _, _, _)
RECURSIVE registerKeysNoAbort(_, _, _, _)
\* the loop of createOnRepositoryManager, from the i-th key on
\* mutant: the keys after a failed registration are registered too
registerKeysNoAbort(w, o, i, out) ==
    IF i > Len(w.users[o].Keys) THEN [w EXCEPT !.err = Nil]
    ELSE LET w1 == addKeyRepository(w, o, w.users[o].Keys[i], out.addKey[i])
             w2 == registerKeysNoAbort(w1, o, i + 1, out)
         IN  IF w1.err # Nil THEN [w2 EXCEPT !.err = w1.err] ELSE w2

registerKeys(w, o, i, out) ==
    IF i > Len(w.users[o].Keys) THEN [w EXCEPT !.err = Nil]
    ELSE LET w1 == addKeyRepository(w, o, w.users[o].Keys[i], out.addKey[i])
         IN  IF w1.err # Nil THEN w1 ELSE registerKeys(w1, o, i + 1, out)

\* mutant: the user is created, its keys are not registered
createOnRepositoryManagerNoKeys(w, o, out) ==
    RepoCreateUser(w, w.users[o].Email, out.createUser)

createOnRepositoryManager(w, o, out) ==
    LET w1 == RepoCreateUser(w, w.users[o].Email, out.createUser)
    IN  IF w1.err # Nil THEN w1 ELSE registerKeys(w1, o, 1, out)

\* mutant: a configured limit of 0 is taken for no limit
ResolveQuotaPositive(limit, cfg) ==
    IF limit = 0
    THEN IF Len(cfg) = 1 /\ cfg[1] > 0 THEN cfg[1] ELSE Unlimited
    ELSE limit

\* the quota of lines 87-92
ResolveQuota(limit, cfg) ==
    IF limit = 0
    THEN IF Len(cfg) = 1 /\ cfg[1] > -1 THEN cfg[1] ELSE Unlimited
    ELSE limit

\* mutant: a failed registration is not compensated
CreateNoCompensation(w, o, out, cfg) ==
    LET w1 == DbConn(w, out.conn)
    IN  IF w1.err # Nil THEN w1
        ELSE LET w2 == [w1 EXCEPT !.users[o].Limit = ResolveQuota(@, cfg)]
                 w3 == DbInsert(w2, w2.users[o], out.insert)
             IN  IF w3.err # Nil THEN w3
                 ELSE createOnRepositoryManager(w3, o, out)

\* mutant: the result of the compensating Delete is what Create returns
CreateReturnsDeleteError(w, o, out, cfg) ==
    LET w1 == DbConn(w, out.conn)
    IN  IF w1.err # Nil THEN w1
        ELSE LET w2 == [w1 EXCEPT !.users[o].Limit = ResolveQuota(@, cfg)]
                 w3 == DbInsert(w2, w2.users[o], out.insert)
             IN  IF w3.err # Nil THEN w3
                 ELSE LET w4 == createOnRepositoryManager(w3, o, out)
                      IN  IF w4.err # Nil THEN Delete(w4, o, out) ELSE w4

\* mutant: a failed insert is compensated like a failed registration
CreateCompensatesInsert(w, o, out, cfg) ==
    LET w1 == DbConn(w, out.conn)
    IN  IF w1.err # Nil THEN w1
        ELSE LET w2 == [w1 EXCEPT !.users[o].Limit = ResolveQuota(@, cfg)]
                 w3 == DbInsert(w2, w2.users[o], out.insert)
                 w4 == IF w3.err # Nil THEN w3 ELSE createOnRepositoryManager(w3, o, out)
             IN  IF w4.err # Nil
                 THEN [Delete(w4, o, out) EXCEPT !.err = w4.err]
                 ELSE w4

Create(w, o, out, cfg) ==
    LET w1 == DbConn(w, out.conn)
    IN  IF w1.err # Nil THEN w1
        ELSE LET w2 == [w1 EXCEPT !.users[o].Limit = ResolveQuota(@, cfg)]
                 w3 == DbInsert(w2, w2.users[o], out.insert)
             IN  IF w3.err # Nil THEN w3
                 ELSE LET w4 == createOnRepositoryManager(w3, o, out)
                      IN  IF w4.err # Nil
                          THEN [Delete(w4, o, out) EXCEPT !.err = w4.err]
                          ELSE w4

-----------------------------------------------------------------------------
(* action.Pipeline, and the two actions of AddKey *)

Forward(a, w, o, key, out) ==
    CASE a = "addKeyInRepositoryAction" -> addKeyRepository(w, o, key, out.repoAdd)
      [] a = "addKeyInDatabaseAction" -> addKeyDB(w, o, key, out)

\* the backward step returns nothing: its error is dropped
Backward(a, w, o, key, out) ==
    CASE a = "addKeyInRepositoryAction" -> removeKeyRepository(w, o, key, out.repoRemove)
      [] a = "addKeyInDatabaseAction" -> w

RECURSIVE rollback(_, _, _, _, _, _)
\* the backward steps of actions[i], actions[i-1], ..., actions[1]
rollback(actions, i, w, o, key, out) ==
    IF i < 1 THEN w
    ELSE rollback(actions, i - 1, Backward(actions[i], w, o, key, out), o, key, out)

RECURSIVE ExecuteFrom(_, _, _, _, _, _)
ExecuteFrom(actions, i, w, o, key, out) ==
    IF i > Len(actions) THEN [w EXCEPT !.err = Nil]
    ELSE LET w1 == Forward(actions[i], w, o, key, out)
         IN  IF w1.err # Nil
             THEN [rollback(actions, i - 1, w1, o, key, out) EXCEPT !.err = w1.err]
             ELSE ExecuteFrom(actions, i + 1, w1, o, key, out)

Execute(actions, w, o, key, out) == ExecuteFrom(actions, 1, w, o, key, out)

\* fmt.Sprintf("%s-%d", u.Email, len(u.Keys)+1)
AutoName(email, n) == email \o "-" \o ToString(n)

\* the key AddKey works on: lines 160-162
NamedKey(u, key) ==
    IF key.Name = "" THEN [key EXCEPT !.Name = AutoName(u.Email, Len(u.Keys) + 1)] ELSE key

\* mutant: the two actions in the other order
AddKeyActionsReversed == <<"addKeyInDatabaseAction", "addKeyInRepositoryAction">>

AddKeyActions == <<"addKeyInRepositoryAction", "addKeyInDatabaseAction">>

AddKey(w, o, arg, out) ==
    LET key == NamedKey(w.users[o], arg)
    IN  IF HasKey(w.users[o].Keys, key) THEN [w EXCEPT !.err = ErrUserAlreadyHasKey]
        ELSE Execute(AddKeyActions, w, o, key, out)

-----------------------------------------------------------------------------
(* The state machine: one action per handler call *)

World ==
    [ users |-> users, db |-> db, repoUsers |-> repoUsers, repoKeys |-> repoKeys,
      calls |-> <<>>, err |-> Nil ]

NoKey == [Name |-> "", Content |-> ""]

\* no call is being run step by step on the object
Idle ==
    [ pc |-> "idle", i |-> 0, arg |-> NoKey, key |-> NoKey, err |-> Nil, calls |-> <<>>,
      overlapped |-> FALSE ]

Failed(calls, fns) == \E i \in 1..Len(calls) : calls[i].fn \in fns /\ calls[i].err # Nil

\* the object's key list is the persisted one
InSync(o) ==
    /\ Stored(db, users[o].Email)
    /\ db[users[o].Email].Keys = users[o].Keys

\* A call that cannot break the mirror: no compensating call failed in it, no
\* persistence of RemoveKey failed, Delete removed both sides or changed nothing,
\* and AddKey and RemoveKey ran on an object holding the persisted key list.
MirrorSafeCall(op, o, calls) ==
    CASE op = "AddKey" -> InSync(o) /\ ~Failed(calls, {"repo.RemoveKey"})
      [] op = "RemoveKey" -> InSync(o) /\ ~Failed(calls, {"db.Conn", "db.Update"})
      [] op = "Create" ->
            /\ ~Failed(calls, {"db.Remove", "repo.RemoveUser"})
            /\ ~\E i \in 2..Len(calls) : calls[i].fn = "db.Conn" /\ calls[i].err # Nil
      [] op = "Delete" -> ~Failed(calls, {"db.Remove", "repo.RemoveUser"})
      [] OTHER -> TRUE

\* the failures given to the collaborator calls of a log
Injected(calls) ==
    Cardinality({i \in 1..Len(calls) : calls[i].err \in {ErrConn, ErrDbIO, ErrRepo}})

\* the failures an outcome record asks for
Asked(out) ==
    Cardinality({f \in DOMAIN out \ {"addKey"} : out[f] # Nil})
    + IF "addKey" \in DOMAIN out
      THEN Cardinality({i \in DOMAIN out.addKey : out.addKey[i] # Nil})
      ELSE 0

\* The handler has returned w: the state after the call.  An outcome is given only
\* to a call the handler makes, and the failures stay within MaxFaults.
Return(w, out, op, o, arg, key) ==
    /\ faults + Asked(out) <= MaxFaults
    /\ Asked(out) = Injected(w.calls)
    /\ faults' = faults + Injected(w.calls)
    /\ users' = w.users
    /\ db' = w.db
    /\ repoUsers' = w.repoUsers
    /\ repoKeys' = w.repoKeys
    /\ last' = [op |-> op, obj |-> o, arg |-> arg, key |-> key,
                err |-> w.err, calls |-> w.calls]
    /\ mirrored' = (mirrored /\ MirrorSafeCall(op, o, w.calls))
    /\ allOk' = (allOk /\ w.err = Nil)
    /\ UNCHANGED <<config, inflight>>

CreateCall(o) ==
    \E out \in CreateOutcomes :
        Return(Create(World, o, out, config), out, "Create", o, NoKey, NoKey)

DeleteCall(o) ==
    \E out \in DeleteOutcomes : Return(Delete(World, o, out), out, "Delete", o, NoKey, NoKey)

AddKeyCall(o) ==
    /\ Len(users[o].Keys) < MaxKeys
    /\ \E arg \in ArgKeys, out \in AddKeyOutcomes :
          Return(AddKey(World, o, arg, out), out, "AddKey", o, arg, NamedKey(users[o], arg))

RemoveKeyCall(o) ==
    \E arg \in ArgKeys, out \in RemoveKeyOutcomes :
        LET index == FindKey(users[o].Keys, arg)
            actual == IF index < 0 THEN NoKey ELSE users[o].Keys[index + 1]
        IN  Return(RemoveKey(World, o, arg, out), out, "RemoveKey", o, arg, actual)

GetUserByEmailCall(o) ==
    \E email \in Emails \cup {"nobody"}, out \in FindOutcomes :
        Return(GetUserByEmail(World, o, email, out), out, "GetUserByEmail", o,
               [Name |-> email, Content |-> ""], NoKey)

Init ==
    /\ users \in [Objs -> [Email : Emails, Keys : InitKeyLists, Limit : InitLimits]]
    /\ db = [e \in {} |-> NoKey]
    /\ repoUsers = {}
    /\ repoKeys = [e \in Emails |-> {}]
    /\ last = [op |-> "none", obj |-> "none", arg |-> NoKey, key |-> NoKey,
               err |-> Nil, calls |-> <<>>]
    /\ config = <<5>>
    /\ faults = 0
    /\ inflight = [o \in Objs |-> Idle]
    /\ allOk = TRUE
    /\ mirrored = TRUE

Next ==
    \E o \in Objs :
        \/ CreateCall(o)
        \/ DeleteCall(o)
        \/ AddKeyCall(o)
        \/ RemoveKeyCall(o)
        \/ GetUserByEmailCall(o)

Spec == Init /\ [][Next]_vars

-----------------------------------------------------------------------------
TypeOK ==
    /\ \A o \in DOMAIN users : users[o].Email \in Emails /\ Len(users[o].Keys) <= MaxKeys
    /\ DOMAIN db \subseteq Emails
    /\ repoUsers \subseteq Emails

Mirror ==
    \A e \in Emails :
        repoKeys[e] = IF Stored(db, e) THEN {RepoKey(k) : k \in Range(db[e].Keys)} ELSE {}

-----------------------------------------------------------------------------
(* Reading the log of the last call *)

Called(calls, fn) == \E i \in 1..Len(calls) : calls[i].fn = fn
Succeeded(calls, fn) == \E i \in 1..Len(calls) : calls[i].fn = fn /\ calls[i].err = Nil
Count(calls, fn) == Cardinality({i \in 1..Len(calls) : calls[i].fn = fn})
Occurrences(keys, key) == Cardinality({i \in 1..Len(keys) : keys[i] = key})

LastEmail == users[last.obj].Email
PersistedKeys(e) == IF Stored(db, e) THEN Range(db[e].Keys) ELSE {}

\* the last call was an AddKey whose registration succeeded and whose persistence
\* (obtaining the connection, or the update) then failed
AddKeyPersistFailed(l) ==
    /\ l.op = "AddKey"
    /\ Succeeded(l.calls, "repo.AddKey")
    /\ Failed(l.calls, {"db.Conn", "db.Update"})

\* the last call was a Create whose registration in the Repository Manager failed
CreateRegistrationFailed(l) ==
    /\ l.op = "Create"
    /\ Failed(l.calls, {"repo.CreateUser", "repo.AddKey"})

\* the compensating Delete of a Create could not remove the record
CompensatingRemoveFailed(l) ==
    \/ Failed(l.calls, {"db.Remove"})
    \/ \E i \in 2..Len(l.calls) : l.calls[i].fn = "db.Conn" /\ l.calls[i].err # Nil

-----------------------------------------------------------------------------
\* C1 (as stated): after an AddKey whose registration succeeded and whose persistence
\* failed, AddKey has returned an error, the Repository Manager does not hold the key
\* and the persisted key list does not contain it.
C1_NoOrphanKey_AsStated ==
    AddKeyPersistFailed(last) =>
        /\ last.err # Nil
        /\ RepoKey(last.key) \notin repoKeys[LastEmail]
        /\ last.key \notin PersistedKeys(LastEmail)

\* C1 (amended): an AddKey whose registration succeeded and whose persistence failed
\* returns the persistence error and leaves the Document Store as it was before the
\* call; unless the compensating removeKey failed, the Repository Manager does not
\* hold the key afterwards.
C1_NoOrphanKey ==
    [][ AddKeyPersistFailed(last') =>
            /\ last'.err \in {ErrConn, ErrDbIO, ErrNotFound}
            /\ db' = db
            /\ Count(last'.calls, "repo.RemoveKey") = 1
            /\ ~Failed(last'.calls, {"repo.RemoveKey"}) =>
                    RepoKey(last'.key) \notin repoKeys'[users'[last'.obj].Email]
      ]_vars

C1_Witness ==
    /\ AddKeyPersistFailed(last)
    /\ Succeeded(last.calls, "repo.RemoveKey")
    /\ Stored(db, LastEmail)
    /\ RepoKey(last.key) \notin repoKeys[LastEmail]
    /\ last.key \notin PersistedKeys(LastEmail)

\* C2 (as stated): after a Create that failed during the registration in the
\* Repository Manager, the Document Store does not contain the user record.
C2_NoOrphanUser_AsStated ==
    CreateRegistrationFailed(last) => ~Stored(db, LastEmail)

\* C2 (amended): after a Create that failed during the registration in the Repository
\* Manager, the Document Store does not contain the user record, unless the
\* compensating removal itself failed (no connection, or the remove returned an error).
C2_NoOrphanUser ==
    (CreateRegistrationFailed(last) /\ ~CompensatingRemoveFailed(last))
        => ~Stored(db, LastEmail)

C2_Witness ==
    /\ CreateRegistrationFailed(last)
    /\ Succeeded(last.calls, "db.Insert")
    /\ Succeeded(last.calls, "db.Remove")
    /\ ~Stored(db, LastEmail)

WorldUnchanged ==
    /\ users' = users
    /\ db' = db
    /\ repoUsers' = repoUsers
    /\ repoKeys' = repoKeys

\* C4: right after a successful AddKey of K through a user object, an AddKey through
\* the same object of a key with K's content or K's name returns ErrUserAlreadyHasKey,
\* calls no collaborator and changes neither the object nor the stores, where K is
\* held exactly once.
C4_DuplicateRejected ==
    [][ ( /\ last.op = "AddKey" /\ last.err = Nil
          /\ last'.op = "AddKey" /\ last'.obj = last.obj
          /\ \/ last'.arg.Content = last.key.Content
             \/ last'.arg.Name = last.key.Name )
        => /\ last'.err = ErrUserAlreadyHasKey
           /\ last'.calls = <<>>
           /\ WorldUnchanged
           /\ Occurrences(users'[last.obj].Keys, last.key) = 1
           /\ Occurrences(db'[users'[last.obj].Email].Keys, last.key) = 1
           /\ RepoKey(last.key) \in repoKeys'[users'[last.obj].Email]
      ]_vars

\* an AddKey rejected for its content alone, the key it collides with being held once
\* by the object, the record and the Repository Manager
C4_Witness ==
    /\ last.op = "AddKey"
    /\ last.err = ErrUserAlreadyHasKey
    /\ last.calls = <<>>
    /\ \E k \in Range(users[last.obj].Keys) :
          /\ k.Content = last.arg.Content
          /\ k.Name # last.key.Name
          /\ Occurrences(users[last.obj].Keys, k) = 1
          /\ k \in PersistedKeys(LastEmail)
          /\ RepoKey(k) \in repoKeys[LastEmail]

C6_AddKeyFirstStepFailure ==
    [][ (last'.op = "AddKey" /\ Failed(last'.calls, {"repo.AddKey"}))
        => /\ Contains(last'.err, "failed to add key to git server")
           /\ Len(last'.calls) = 1
           /\ WorldUnchanged
      ]_vars

C6_Witness ==
    /\ last.op = "AddKey"
    /\ Failed(last.calls, {"repo.AddKey"})
    /\ Contains(last.err, "failed to add key to git server")
    /\ last.key \notin Range(users[last.obj].Keys)
    /\ Stored(db, LastEmail)

\* C7: a RemoveKey whose key is found and whose removeKey fails returns that error
\* wrapped, attempts no update and changes neither the object nor the record; a
\* RemoveKey whose key is not found returns ErrKeyNotFound and calls no collaborator.
C7_RemoveKeyAborts ==
    [][ last'.op = "RemoveKey" =>
           /\ FindKey(users[last'.obj].Keys, last'.arg) < 0 =>
                 /\ last'.err = ErrKeyNotFound
                 /\ last'.calls = <<>>
                 /\ WorldUnchanged
           /\ Failed(last'.calls, {"repo.RemoveKey"}) =>
                 /\ last'.err = "failed to remove the key from git server: " \o ErrRepo
                 /\ Len(last'.calls) = 1
                 /\ users' = users
                 /\ db' = db
      ]_vars

C7_Witness ==
    /\ last.op = "RemoveKey"
    /\ Failed(last.calls, {"repo.RemoveKey"})
    /\ last.key \in Range(users[last.obj].Keys)
    /\ last.key \in PersistedKeys(LastEmail)

\* the error of the call that made the registration of a Create fail, as
\* createOnRepositoryManager returns it
RegistrationError(c) ==
    LET i == CHOOSE i \in 1..Len(c) :
                 c[i].fn \in {"repo.CreateUser", "repo.AddKey"} /\ c[i].err # Nil
    IN  IF c[i].fn = "repo.CreateUser" THEN c[i].err
        ELSE "failed to add key to git server: " \o c[i].err

\* C8: a Create whose registration in the Repository Manager fails returns the
\* registration error, whether the compensating deletion succeeds or fails.
C8_CreateReportsOriginalError ==
    CreateRegistrationFailed(last) => last.err = RegistrationError(last.calls)

\* the registration error returned although the compensation failed
C8_Witness ==
    /\ CreateRegistrationFailed(last)
    /\ CompensatingRemoveFailed(last)
    /\ last.err = RegistrationError(last.calls)

\* C9: every Delete attempts the removal from the Document Store and removeUser; a
\* failure on the Document Store side, failing to obtain the connection included,
\* does not keep removeUser from being attempted.
C9_DeleteAttemptsBoth ==
    last.op = "Delete" =>
        /\ Called(last.calls, "repo.RemoveUser")
        /\ Failed(last.calls, {"db.Conn"}) \/ Called(last.calls, "db.Remove")

\* C10: a Create whose insert fails returns the insert error after the connection
\* and the insert alone (no Repository Manager call, no compensation) and leaves the
\* Document Store and the Repository Manager as they were.
C10_CreateFailsFast ==
    [][ (last'.op = "Create" /\ Failed(last'.calls, {"db.Insert"}))
        => /\ Len(last'.calls) = 2
           /\ last'.calls[1].fn = "db.Conn"
           /\ last'.err = last'.calls[2].err
           /\ last'.err \in {ErrDup, ErrDbIO}
           /\ db' = db
           /\ repoUsers' = repoUsers
           /\ repoKeys' = repoKeys
      ]_vars

\* a duplicate insert refused: the record stored and the registration are still there
C10_Witness ==
    /\ last.op = "Create"
    /\ last.err = ErrDup
    /\ Stored(db, LastEmail)
    /\ LastEmail \in repoUsers
    /\ repoKeys[LastEmail] # {}

-----------------------------------------------------------------------------
(* A user already created, holding three keys in both stores: the state after
   Create and AddKey of (k1, c1), of c2 without a name, and of (k3, c3). *)

ThreeKeys ==
    << [Name |-> "k1", Content |-> "c1"],
       [Name |-> "a@x.com-2", Content |-> "c2"],
       [Name |-> "k3", Content |-> "c3"] >>

StoredUser == [Email |-> "a@x.com", Keys |-> ThreeKeys, Limit |-> 3]

RemoveInit ==
    /\ users = [o \in Objs |-> StoredUser]
    /\ db = [e \in {StoredUser.Email} |-> StoredUser]
    /\ repoUsers = {StoredUser.Email}
    /\ repoKeys = [e \in Emails |-> {RepoKey(k) : k \in Range(ThreeKeys)}]
    /\ last = [op |-> "none", obj |-> "none", arg |-> NoKey, key |-> NoKey,
               err |-> Nil, calls |-> <<>>]
    /\ config = <<5>>
    /\ faults = 0
    /\ inflight = [o \in Objs |-> Idle]
    /\ allOk = TRUE
    /\ mirrored = TRUE

RemoveNext ==
    \E o \in Objs :
        \/ AddKeyCall(o)
        \/ RemoveKeyCall(o)
        \/ GetUserByEmailCall(o)

RemoveSpec == RemoveInit /\ [][RemoveNext]_vars

Matches(k, arg) == k.Name = arg.Name \/ k.Content = arg.Content

\* L without its i-th element
Without(L, i) == SubSeq(L, 1, i - 1) \o SubSeq(L, i + 1, Len(L))

\* C11: a successful RemoveKey on a user holding the list L leaves, in the object and
\* in the Document Store, L without the first of its keys that has the name or the
\* content of the argument: one key fewer, the others in their order.
C11_RemoveKeepsOrder ==
    [][ (last'.op = "RemoveKey" /\ last'.err = Nil) =>
            LET L == users[last'.obj].Keys
                after == users'[last'.obj].Keys
            IN  \E i \in 1..Len(L) :
                    /\ Matches(L[i], last'.arg)
                    /\ \A j \in 1..(i - 1) : ~Matches(L[j], last'.arg)
                    /\ last'.key = L[i]
                    /\ after = Without(L, i)
                    /\ Len(after) = Len(L) - 1
                    /\ db'[users'[last'.obj].Email].Keys = after
      ]_vars

\* [A, B, C] minus B: the key in the middle was removed by its content
C11_Witness ==
    /\ last.op = "RemoveKey"
    /\ last.err = Nil
    /\ last.key = ThreeKeys[2]
    /\ users[last.obj].Keys = <<ThreeKeys[1], ThreeKeys[3]>>
    /\ db[LastEmail].Keys = <<ThreeKeys[1], ThreeKeys[3]>>

-----------------------------------------------------------------------------
(* Users created with and without a quota, under every configuration *)

QuotaLimits == {0, 3}

QuotaInit ==
    /\ users \in [Objs -> [Email : Emails, Keys : {<<>>}, Limit : QuotaLimits]]
    /\ db = [e \in {} |-> NoKey]
    /\ repoUsers = {}
    /\ repoKeys = [e \in Emails |-> {}]
    /\ last = [op |-> "none", obj |-> "none", arg |-> NoKey, key |-> NoKey,
               err |-> Nil, calls |-> <<>>]
    /\ config \in ConfigValues
    /\ faults = 0
    /\ inflight = [o \in Objs |-> Idle]
    /\ allOk = TRUE
    /\ mirrored = TRUE

QuotaNext ==
    \E o \in Objs :
        \/ CreateCall(o)
        \/ DeleteCall(o)
        \/ GetUserByEmailCall(o)

QuotaSpec == QuotaInit /\ [][QuotaNext]_vars

\* the limit a user with the limit l is to have after Create under the configuration cfg
ExpectedLimit(l, cfg) ==
    CASE l # 0 -> l
      [] cfg = <<>> -> Unlimited
      [] cfg[1] < 0 -> Unlimited
      [] OTHER -> cfg[1]

\* C12: a Create that got its connection leaves a user that had no quota (limit 0)
\* with the configured apps-per-user when one is configured and is not negative, with
\* the unlimited limit otherwise, and leaves a limit already set as it was; the record
\* a successful Create stores carries that limit.
C12_QuotaDefault ==
    [][ (last'.op = "Create" /\ last'.calls[1].err = Nil) =>
            /\ users'[last'.obj].Limit = ExpectedLimit(users[last'.obj].Limit, config)
            /\ last'.err = Nil => db'[users'[last'.obj].Email].Limit = users'[last'.obj].Limit
      ]_vars

\* a user created without a quota under apps-per-user = 5
C12_Witness ==
    /\ last.op = "Create"
    /\ last.err = Nil
    /\ config = <<5>>
    /\ users[last.obj].Limit = 5
    /\ db[LastEmail].Limit = 5

\* a user created without a quota and without a configured limit
C12_WitnessUnlimited ==
    /\ last.op = "Create"
    /\ last.err = Nil
    /\ config = <<>>
    /\ users[last.obj].Limit = Unlimited

-----------------------------------------------------------------------------
(* Two AddKey calls for one user, each through its own copy of the stored record,
   run one pipeline step at a time: the duplicate check, then the forward steps of
   AddKeyActions in order, then after a failure the backward steps in reverse. *)

ConcObjs == {"u1", "u2"}

LoadedUser == [Email |-> "a@x.com", Keys |-> <<>>, Limit |-> 3]

ConcInit ==
    /\ users = [p \in ConcObjs |-> LoadedUser]
    /\ db = [e \in {LoadedUser.Email} |-> LoadedUser]
    /\ repoUsers = {LoadedUser.Email}
    /\ repoKeys = [e \in Emails |-> {}]
    /\ last = [op |-> "none", obj |-> "none", arg |-> NoKey, key |-> NoKey,
               err |-> Nil, calls |-> <<>>]
    /\ config = <<5>>
    /\ faults = 0
    /\ inflight = [p \in ConcObjs |-> Idle]
    /\ allOk = TRUE
    /\ mirrored = TRUE

\* p's call is between its duplicate check and its persistence
Uncommitted(p) == inflight[p].pc = "forward"

\* the world p's call sees, its log continued
WorldOf(p) == [World EXCEPT !.calls = inflight[p].calls]

\* the state after a step of p's call that ended in the world w with p at f
Stepped(w, p, f) ==
    /\ users' = w.users
    /\ db' = w.db
    /\ repoUsers' = w.repoUsers
    /\ repoKeys' = w.repoKeys
    /\ faults' = faults + (Injected(w.calls) - Injected(inflight[p].calls))
    /\ inflight' = [inflight EXCEPT ![p] = f]
    /\ last' = IF f.pc = "done"
               THEN [op |-> "AddKey", obj |-> p, arg |-> f.arg, key |-> f.key,
                     err |-> f.err, calls |-> f.calls]
               ELSE last
    /\ allOk' = (allOk /\ (f.pc = "done" => f.err = Nil))
    /\ UNCHANGED <<config, mirrored>>

\* lines 160-165: the name, the duplicate check
AddKeyBegin(p) ==
    /\ inflight[p].pc = "idle"
    /\ Len(users[p].Keys) < MaxKeys
    /\ \E arg \in ArgKeys :
          LET key == NamedKey(users[p], arg)
              others == {q \in ConcObjs \ {p} : Uncommitted(q)}
              f == [Idle EXCEPT !.arg = arg, !.key = key]
          IN  IF HasKey(users[p].Keys, key)
              THEN Stepped(WorldOf(p), p,
                           [f EXCEPT !.pc = "done", !.err = ErrUserAlreadyHasKey])
              ELSE /\ inflight' =
                        [q \in ConcObjs |->
                            IF q = p
                            THEN [f EXCEPT !.pc = "forward", !.i = 1,
                                           !.overlapped = others # {}]
                            ELSE IF q \in others
                                 THEN [inflight[q] EXCEPT !.overlapped = TRUE]
                                 ELSE inflight[q]]
                   /\ UNCHANGED <<users, db, repoUsers, repoKeys, last, config, faults,
                                  allOk, mirrored>>

\* one forward step of the pipeline of lines 166-171
AddKeyForward(p) ==
    /\ inflight[p].pc = "forward"
    /\ \E out \in AddKeyOutcomes :
          LET c == inflight[p]
              w == Forward(AddKeyActions[c.i], WorldOf(p), p, c.key, out)
              f == [c EXCEPT !.calls = w.calls]
          IN  /\ faults + Asked(out) <= MaxFaults
              /\ Asked(out) = Injected(w.calls) - Injected(c.calls)
              /\ Stepped(w, p,
                    IF w.err # Nil
                    THEN IF c.i > 1
                         THEN [f EXCEPT !.pc = "backward", !.i = c.i - 1, !.err = w.err]
                         ELSE [f EXCEPT !.pc = "done", !.err = w.err]
                    ELSE IF c.i = Len(AddKeyActions)
                         THEN [f EXCEPT !.pc = "done", !.err = Nil]
                         ELSE [f EXCEPT !.i = c.i + 1])

\* one backward step of the rollback
AddKeyBackward(p) ==
    /\ inflight[p].pc = "backward"
    /\ \E out \in AddKeyOutcomes :
          LET c == inflight[p]
              w == Backward(AddKeyActions[c.i], WorldOf(p), p, c.key, out)
              f == [c EXCEPT !.calls = w.calls]
          IN  /\ faults + Asked(out) <= MaxFaults
              /\ Asked(out) = Injected(w.calls) - Injected(c.calls)
              /\ Stepped(w, p,
                    IF c.i > 1 THEN [f EXCEPT !.i = c.i - 1] ELSE [f EXCEPT !.pc = "done"])

ConcNext ==
    \E p \in ConcObjs :
        \/ AddKeyBegin(p)
        \/ AddKeyForward(p)
        \/ AddKeyBackward(p)

ConcSpec == ConcInit /\ [][ConcNext]_vars

\* C13: when the two AddKey calls, of different keys, have both returned success, the
\* Document Store holds the key list of the call that returned last, with that call's
\* key and without the other's, and the Repository Manager holds both keys.
C13_LostUpdate ==
    \A p \in ConcObjs, q \in ConcObjs :
        ( /\ p # q
          /\ inflight[p].pc = "done" /\ inflight[p].err = Nil
          /\ inflight[q].pc = "done" /\ inflight[q].err = Nil
          /\ inflight[p].key # inflight[q].key
          /\ last.obj = q )
        => /\ db[users[q].Email].Keys = users[q].Keys
           /\ inflight[q].key \in Range(db[users[q].Email].Keys)
           /\ inflight[p].key \notin Range(db[users[q].Email].Keys)
           /\ RepoKey(inflight[p].key) \in repoKeys[users[q].Email]
           /\ RepoKey(inflight[q].key) \in repoKeys[users[q].Email]

\* both calls passed the duplicate check before either persisted, both returned
\* success, and the key of one is lost
C13_Witness ==
    \E p \in ConcObjs, q \in ConcObjs :
        /\ p # q
        /\ inflight[p].pc = "done" /\ inflight[p].err = Nil /\ inflight[p].overlapped
        /\ inflight[q].pc = "done" /\ inflight[q].err = Nil /\ inflight[q].overlapped
        /\ inflight[p].key.Content # inflight[q].key.Content
        /\ last.obj = q
        /\ inflight[p].key \notin Range(db[users[q].Email].Keys)
        /\ RepoKey(inflight[p].key) \in repoKeys[users[q].Email]
        /\ RepoKey(inflight[q].key) \in repoKeys[users[q].Email]

-----------------------------------------------------------------------------
\* no two keys of the list share a name or a content
Unique(keys) ==
    \A i \in 1..Len(keys), j \in 1..Len(keys) :
        i # j => keys[i].Name # keys[j].Name /\ keys[i].Content # keys[j].Content

\* C14: the key list of every user object and every key list held by the Document
\* Store have no two keys sharing a name or sharing a content, after any calls,
\* successful or failed, with names given or generated.
C14_KeyUniqueness ==
    /\ \A o \in DOMAIN users : Unique(users[o].Keys)
    /\ \A e \in DOMAIN db : Unique(db[e].Keys)

\* a second key, named by AddKey, added and persisted
C14_Witness ==
    /\ last.op = "AddKey"
    /\ last.err = Nil
    /\ last.arg.Name = ""
    /\ Len(users[last.obj].Keys) = 2
    /\ Stored(db, LastEmail)
    /\ db[LastEmail].Keys = users[last.obj].Keys

IsRegistration(c) == c.fn \in {"repo.CreateUser", "repo.AddKey"}

\* the calls made to the Repository Manager to register, in the order made
Registrations(calls) == SelectSeq(calls, IsRegistration)

\* C15: a Create whose insert succeeded calls createUser right after the insert, then
\* addKey for the user's keys in list order; nothing is registered after a failed
\* registration, whose error is the one returned; without a failure every key is sent.
C15_CreateRegistersInOrder ==
    (last.op = "Create" /\ Succeeded(last.calls, "db.Insert")) =>
        LET reg == Registrations(last.calls)
            keys == users[last.obj].Keys
        IN  /\ Len(reg) >= 1
            /\ Len(reg) <= 1 + Len(keys)
            /\ \A i \in 1..Len(reg) : last.calls[2 + i] = reg[i]
            /\ reg[1].fn = "repo.CreateUser"
            /\ \A i \in 2..Len(reg) :
                  reg[i].fn = "repo.AddKey" /\ reg[i].arg = keys[i - 1].Name
            /\ \A i \in 1..(Len(reg) - 1) : reg[i].err = Nil
            /\ IF reg[Len(reg)].err = Nil
               THEN Len(reg) = 1 + Len(keys) /\ last.err = Nil
               ELSE last.err = RegistrationError(last.calls)

\* the first of two keys refused: the second one is never sent
C15_Witness ==
    /\ last.op = "Create"
    /\ Len(users[last.obj].Keys) = 2
    /\ Len(Registrations(last.calls)) = 2
    /\ Registrations(last.calls)[1].err = Nil
    /\ Registrations(last.calls)[2].arg = users[last.obj].Keys[1].Name
    /\ Registrations(last.calls)[2].err # Nil
    /\ last.err = "failed to add key to git server: " \o ErrRepo

FailedCalls(calls) == {i \in 1..Len(calls) : calls[i].err # Nil}

\* C16: a Create that fails during the registration in the Repository Manager, and
\* whose compensating calls all succeed, leaves the Document Store and the Repository
\* Manager as they were before the call, a registration the Repository Manager
\* already held for the email included.
C16_FailedCreateRestores ==
    [][ (CreateRegistrationFailed(last') /\ Cardinality(FailedCalls(last'.calls)) = 1)
        => /\ db' = db
           /\ repoUsers' = repoUsers
           /\ repoKeys' = repoKeys
      ]_vars

\* C17: after successful calls only, an AddKey without a name, of a content that no
\* key of the user has, is not refused as a key the user already has.
C17_AutoNamedAccepted ==
    [][ ( /\ allOk
          /\ last'.op = "AddKey"
          /\ last'.arg.Name = ""
          /\ \A k \in Range(users[last'.obj].Keys) : k.Content # last'.arg.Content )
        => last'.err # ErrUserAlreadyHasKey
      ]_vars

\* C18: an AddKey that returns an error leaves the key list of the user object as it
\* was before the call.
C18_FailedAddKeyKeepsList ==
    [][ (last'.op = "AddKey" /\ last'.err # Nil)
        => users'[last'.obj].Keys = users[last'.obj].Keys
      ]_vars

\* C19: after a RemoveKey that returns an error, the key it was asked to remove is
\* registered in the Repository Manager, in the persisted record and in the key list
\* of the user object, wherever it was before the call.
C19_RemoveKeyAllOrNothing ==
    [][ (last'.op = "RemoveKey" /\ last'.err # Nil /\ last'.err # ErrKeyNotFound)
        => LET o == last'.obj
               e == users[o].Email
               k == last'.key
           IN  /\ RepoKey(k) \in repoKeys[e] => RepoKey(k) \in repoKeys'[e]
               /\ (Stored(db, e) /\ k \in Range(db[e].Keys))
                     => (Stored(db', e) /\ k \in Range(db'[e].Keys))
               /\ k \in Range(users[o].Keys) => k \in Range(users'[o].Keys)
      ]_vars

====
